---------------------------- MODULE Spec2Model ----------------------------
(***************************************************************************)
(* A model of the Result / Error subsystem of etl.hpp:                     *)
(*   - etl::Error (with etl::SourceLocation),                              *)
(*   - the generic etl::Result<OkType, ErrType>,                           *)
(*   - the specialization etl::Result<std::unique_ptr<OkType>, ErrType>.   *)
(* Each component has its own next-state relation; the three components    *)
(* share no state, so each is explored by its own specification.           *)
(***************************************************************************)
EXTENDS Integers, Sequences, FiniteSets

VARIABLES
    \* ---- etl::Error -------------------------------------------------
    error,      \* the Error object: NoObj or [msg_, info_]
    born,       \* the arguments of the create() call that built it
    lastSet,    \* the argument of the latest set() call on it, or <<>>
    eret,       \* the latest Error operation and what it returned
    \* ---- etl::Result<OkType, ErrType> -------------------------------
    res,        \* the Result objects: slot -> NoObj or [isOk_, alt, val]
    given,      \* slot -> the state the object was last given by a constructor, by an
                \* assignment to it or by being moved from (NoObj: no object)
    rfault,     \* TRUE once map / mapErr has dereferenced a null std::get_if
    ret,        \* the latest Result operation and what it returned
    \* ---- etl::Result<std::unique_ptr<OkType>, ErrType> --------------
    heap,       \* address -> None (free) or Some(the OkType value stored there)
    cont,       \* the containers: slot -> NoObj or [isOk_, alt, ptr, errv]
    handles,    \* the caller's std::unique_ptr objects: slot -> None or Some(pointer)
    fault,      \* TRUE once the process has died on a null dereference
    pret        \* the latest operation of the specialization and what it returned

errVars == <<error, born, lastSet, eret>>
resVars == <<res, given, rfault, ret>>
ptrVars == <<heap, cont, handles, fault, pret>>
vars == <<error, born, lastSet, eret, res, given, rfault, ret,
          heap, cont, handles, fault, pret>>

-----------------------------------------------------------------------------
(* Bounds of the model *)

\* longest message (in characters)
MaxMsgLen == 2
\* longest file / function name (in characters)
MaxNameLen == 1
\* the small line numbers 0..MaxLine are all tried (one and two digits)
MaxLine == 11

NoObj == [alive |-> FALSE]
None == <<>>
Some(v) == <<v>>

-----------------------------------------------------------------------------
(* std::string / std::string_view: a sequence of characters *)

MsgChars == {"a", "b"}
StringsOver(chars, n) == UNION {[1..k -> chars] : k \in 0..n}
Messages == StringsOver(MsgChars, MaxMsgLen)
Files == StringsOver({"f"}, MaxNameLen)
Functions == StringsOver({"g"}, MaxNameLen)
Lines == (0..MaxLine) \cup {100, 65535, 2147483647}

\* std::string::append
StrAppend(s, t) == s \o t
\* std::string::empty
StrEmpty(s) == Len(s) = 0

DigitChar(d) == <<"0", "1", "2", "3", "4", "5", "6", "7", "8", "9">>[d + 1]

\* std::to_string(uint32_t): decimal digits, most significant first
RECURSIVE to_string(_)
to_string(n) ==
    IF n < 10 THEN <<DigitChar(n)>>
    ELSE StrAppend(to_string(n \div 10), <<DigitChar(n % 10)>>)

\* the string literals of Error's constructor
LitError == <<"E", "r", "r", "o", "r", ":", " ">>
LitFunction == <<"\n", "F", "u", "n", "c", "t", "i", "o", "n", ":", " ">>
LitFile == <<"\n", "F", "i", "l", "e", ":", " ">>
LitColon == <<":">>

-----------------------------------------------------------------------------
(* etl::SourceLocation *)

SourceLocation(file, line, func) == [file_ |-> file, line_ |-> line, func_ |-> func]
NoLoc == [captured |-> FALSE]

-----------------------------------------------------------------------------
(* etl::Error *)

\* Error(std::string_view const &msg)
ErrorMsgOnly(msg) == [msg_ |-> msg, info_ |-> <<>>]

\* a constructor that forgets the separator between file and line
ErrorWithLocNoColon(msg, slc) ==
    [msg_ |-> msg,
     info_ |-> StrAppend(StrAppend(StrAppend(StrAppend(StrAppend(StrAppend(
                   LitError, msg), LitFunction), slc.func_), LitFile), slc.file_),
                   to_string(slc.line_))]

\* Error(std::string_view const &msg, SourceLocation &&slc)
ErrorWithLoc(msg, slc) ==
    [msg_ |-> msg,
     info_ |-> StrAppend(StrAppend(StrAppend(StrAppend(StrAppend(StrAppend(StrAppend(
                   LitError, msg), LitFunction), slc.func_), LitFile), slc.file_),
                   LitColon), to_string(slc.line_))]

\* Error::msg()
Msg(e) == e.msg_

\* Error::info()
Info(e) == IF ~StrEmpty(e.info_) THEN e.info_ ELSE e.msg_

\* a set() that also recomposes the diagnostic's message part
SetMsgAndInfo(e, msg) ==
    [msg_ |-> msg, info_ |-> IF StrEmpty(e.info_) THEN e.info_ ELSE StrAppend(LitError, msg)]

\* Error::set(msg)
SetMsg(e, msg) == [e EXCEPT !.msg_ = msg]

ERet(op, val) == [op |-> op, val |-> val]

\* Error::create(msg)
ErrCreate(m) ==
    /\ error = NoObj
    /\ error' = ErrorMsgOnly(m)
    /\ born' = [m |-> m, loc |-> NoLoc]
    /\ lastSet' = None
    /\ eret' = ERet("create", None)
    /\ UNCHANGED <<resVars, ptrVars>>

\* Error::create(msg, RUNTIME_INFO)
ErrCreateLoc(m, file, line, func) ==
    /\ error = NoObj
    /\ error' = ErrorWithLoc(m, SourceLocation(file, line, func))
    /\ born' = [m |-> m, loc |-> SourceLocation(file, line, func)]
    /\ lastSet' = None
    /\ eret' = ERet("create", None)
    /\ UNCHANGED <<resVars, ptrVars>>

\* e.set(n)
ErrSet(n) ==
    /\ error # NoObj
    /\ error' = SetMsg(error, n)
    /\ lastSet' = Some(n)
    /\ eret' = ERet("set", None)
    /\ UNCHANGED <<born, resVars, ptrVars>>

\* e.msg()
ErrMsg ==
    /\ error # NoObj
    /\ eret' = ERet("msg", Some(Msg(error)))
    /\ UNCHANGED <<error, born, lastSet, resVars, ptrVars>>

\* e.info()
ErrInfo ==
    /\ error # NoObj
    /\ eret' = ERet("info", Some(Info(error)))
    /\ UNCHANGED <<error, born, lastSet, resVars, ptrVars>>

\* ~Error()
ErrDestroy ==
    /\ error # NoObj
    /\ error' = NoObj
    /\ born' = NoObj
    /\ lastSet' = None
    /\ eret' = ERet("destroy", None)
    /\ UNCHANGED <<resVars, ptrVars>>

-----------------------------------------------------------------------------
(* etl::Result<OkType, ErrType>, the generic container *)

\* the Result objects a program holds at once
NumSlots == 2
\* OkType and ErrType each have the values 0..MaxVal
MaxVal == 2

Slots == 1..NumSlots
Vals == 0..MaxVal

\* The callables handed to map / mapErr. dom is the parameter type the callable
\* accepts and returns ("Neither": it cannot be invoked with OkType or ErrType).
Callables ==
    [dom : {"Ok", "Err"}, fn : {"inc", "zero"}] \cup {[dom |-> "Neither", fn |-> "zero"]}

\* std::is_invocable_r_v<T, Function, T const &>
InvocableR(f, T) == f.dom = T

\* std::invoke(func, v) for the two pure callables of the model
Invoke(f, v) == IF f.fn = "inc" THEN (v + 1) % (MaxVal + 1) ELSE 0

\* A moved-from value is valid but unspecified: any value of its type.
MovedFrom(v) == Vals
\* std::move of a const lvalue yields const T&&, which binds to the T const &
\* constructor: the value is copied and the source keeps it.
MovedFromConst(v) == {v}

\* Result(OkType const &) / Result(OkType &&)
ResultOk(v) == [isOk_ |-> TRUE, alt |-> "Ok", val |-> v]
\* an Err constructor that sets the flag as the Ok constructors do
ResultErrFlagOk(e) == [isOk_ |-> TRUE, alt |-> "Err", val |-> e]

\* Result(ErrType const &) / Result(ErrType &&)
ResultErr(e) == [isOk_ |-> FALSE, alt |-> "Err", val |-> e]

\* std::get_if<T>(&result_): None is the null pointer
GetIf(r, T) == IF r.alt = T THEN Some(r.val) ELSE None

\* Result::isOk()
isOk(r) == r.isOk_
\* Result::isErr()
isErr(r) == ~r.isOk_

\* Result::ok()
ok(r) ==
    IF r.isOk_
    THEN IF GetIf(r, "Ok") # None THEN Some(GetIf(r, "Ok")[1]) ELSE None
    ELSE None

\* Result::err()
err(r) ==
    IF ~r.isOk_
    THEN IF GetIf(r, "Err") # None THEN Some(GetIf(r, "Err")[1]) ELSE None
    ELSE None

RRet(op, self, dst, f, recv, val, invoked) ==
    [op |-> op, self |-> self, dst |-> dst, f |-> f, recv |-> recv,
     val |-> val, invoked |-> invoked]
NoF == [dom |-> "Neither", fn |-> "none"]

Alive(s) == res[s] # NoObj

\* Result(v), built in an empty slot
ConstructOk(d, v) ==
    /\ ~rfault /\ ~Alive(d)
    /\ res' = [res EXCEPT ![d] = ResultOk(v)]
    /\ given' = [given EXCEPT ![d] = ResultOk(v)]
    /\ ret' = RRet("constructOk", d, d, NoF, NoObj, Some(v), None)
    /\ UNCHANGED <<rfault, errVars, ptrVars>>

\* Result(e), built in an empty slot
ConstructErr(d, e) ==
    /\ ~rfault /\ ~Alive(d)
    /\ res' = [res EXCEPT ![d] = ResultErr(e)]
    /\ given' = [given EXCEPT ![d] = ResultErr(e)]
    /\ ret' = RRet("constructErr", d, d, NoF, NoObj, Some(e), None)
    /\ UNCHANGED <<rfault, errVars, ptrVars>>

\* r.isOk()
CallIsOk(s) ==
    /\ ~rfault /\ Alive(s)
    /\ ret' = RRet("isOk", s, s, NoF, res[s], Some(isOk(res[s])), None)
    /\ UNCHANGED <<res, given, rfault, errVars, ptrVars>>

\* r.isErr()
CallIsErr(s) ==
    /\ ~rfault /\ Alive(s)
    /\ ret' = RRet("isErr", s, s, NoF, res[s], Some(isErr(res[s])), None)
    /\ UNCHANGED <<res, given, rfault, errVars, ptrVars>>

\* r.ok()
CallOk(s) ==
    /\ ~rfault /\ Alive(s)
    /\ ret' = RRet("ok", s, s, NoF, res[s], ok(res[s]), None)
    /\ UNCHANGED <<res, given, rfault, errVars, ptrVars>>

\* r.err()
CallErr(s) ==
    /\ ~rfault /\ Alive(s)
    /\ ret' = RRet("err", s, s, NoF, res[s], err(res[s]), None)
    /\ UNCHANGED <<res, given, rfault, errVars, ptrVars>>

\* What one call of map / mapErr does: the Result it returns, the value it
\* leaves in the receiver, and the arguments the callable was invoked with.
\* T is the branch the combinator transforms, U the other one.
\* a combinator whose new Result stores every value in the Ok member
MkAlwaysOkMember(T, v) == [isOk_ |-> (T = "Ok"), alt |-> "Ok", val |-> v]

Mk(T, v) == IF T = "Ok" THEN ResultOk(v) ELSE ResultErr(v)

\* a combinator that moves the other branch's value out of the receiver
CombineMoving(r, f, T, U) ==
    IF r.isOk_ = (T = "Ok")
    THEN IF InvocableR(f, T)
         THEN {[out |-> Mk(T, Invoke(f, r.val)), left |-> r.val, invoked |-> Some(r.val)]}
         ELSE {[out |-> Mk(T, r.val), left |-> r.val, invoked |-> None]}
    ELSE {[out |-> Mk(U, r.val), left |-> l, invoked |-> None] : l \in MovedFrom(r.val)}

\* a combinator that never invokes the callable
CombineIgnoring(r, f, T, U) ==
    {[out |-> Mk(IF r.isOk_ THEN "Ok" ELSE "Err", r.val), left |-> r.val, invoked |-> None]}

\* a combinator that hands the value to the callable in the other branch too
CombineAlways(r, f, T, U) ==
    IF InvocableR(f, T) \/ InvocableR(f, U)
    THEN {[out |-> Mk(IF r.isOk_ THEN "Ok" ELSE "Err", Invoke(f, r.val)),
           left |-> r.val, invoked |-> Some(r.val)]}
    ELSE {[out |-> Mk(IF r.isOk_ THEN "Ok" ELSE "Err", r.val),
           left |-> r.val, invoked |-> None]}

\* a combinator that reports a callable it cannot invoke as an error state
CombineStrict(r, f, T, U) ==
    IF r.isOk_ = (T = "Ok")
    THEN IF InvocableR(f, T)
         THEN {[out |-> Mk(T, Invoke(f, r.val)), left |-> r.val, invoked |-> Some(r.val)]}
         ELSE {[out |-> Mk(U, r.val), left |-> r.val, invoked |-> None]}
    ELSE {[out |-> Mk(U, r.val), left |-> l, invoked |-> None] : l \in MovedFromConst(r.val)}

\* the body shared by Result::map (T = "Ok") and Result::mapErr (T = "Err");
\* the receiver's live member is the one its flag names (GetIf is not null)
Combine(r, f, T, U) ==
    IF r.isOk_ = (T = "Ok")
    THEN IF InvocableR(f, T)
         THEN {[out |-> Mk(T, Invoke(f, GetIf(r, T)[1])), left |-> r.val,
                invoked |-> Some(GetIf(r, T)[1])]}
         ELSE {[out |-> Mk(T, GetIf(r, T)[1]), left |-> r.val, invoked |-> None]}
    ELSE {[out |-> Mk(U, GetIf(r, U)[1]), left |-> l, invoked |-> None] :
              l \in MovedFromConst(GetIf(r, U)[1])}

\* whether the call dereferences a null std::get_if (undefined behaviour)
DerefsNull(r, T, U) == GetIf(r, IF r.isOk_ = (T = "Ok") THEN T ELSE U) = None

CallCombinator(op, s, d, f, T, U) ==
    /\ ~rfault /\ Alive(s) /\ ~Alive(d)
    /\ IF DerefsNull(res[s], T, U)
       THEN \* undefined behaviour: the process dies, or the call returns garbage
            \/ /\ rfault' = TRUE
               /\ ret' = RRet(op, s, d, f, res[s], None, None)
               /\ UNCHANGED <<res, given>>
            \/ /\ \E v \in Vals, A \in {"Ok", "Err"} :
                    /\ res' = [res EXCEPT ![d] = Mk(A, v)]
                    /\ given' = [given EXCEPT ![d] = Mk(A, v)]
               /\ ret' = RRet(op, s, d, f, res[s], None, None)
               /\ UNCHANGED <<rfault>>
       ELSE \E o \in Combine(res[s], f, T, U) :
               /\ res' = [res EXCEPT ![d] = o.out, ![s] = [res[s] EXCEPT !.val = o.left]]
               /\ given' = [given EXCEPT ![d] = o.out]
               /\ ret' = RRet(op, s, d, f, res[s], None, o.invoked)
               /\ UNCHANGED <<rfault>>
    /\ UNCHANGED <<errVars, ptrVars>>

\* auto d = s.map(f)
Map(s, d, f) == CallCombinator("map", s, d, f, "Ok", "Err")

\* auto d = s.mapErr(f)
MapErr(s, d, f) == CallCombinator("mapErr", s, d, f, "Err", "Ok")

\* a move that resets the source's flag
MovedFromResultReset(r) == {[isOk_ |-> FALSE, alt |-> r.alt, val |-> l] : l \in MovedFrom(r.val)}

\* The states a defaulted move leaves its source in: the bool is copied, the
\* variant keeps its alternative, which holds a moved-from value.
MovedFromResult(r) == {[r EXCEPT !.val = l] : l \in MovedFrom(r.val)}

\* Result(const Result &other) = default
CopyConstruct(s, d) ==
    /\ ~rfault /\ Alive(s) /\ ~Alive(d)
    /\ res' = [res EXCEPT ![d] = res[s]]
    /\ given' = [given EXCEPT ![d] = res[s]]
    /\ ret' = RRet("copyConstruct", s, d, NoF, res[s], None, None)
    /\ UNCHANGED <<rfault, errVars, ptrVars>>

\* Result(Result &&other) noexcept = default
MoveConstruct(s, d) ==
    /\ ~rfault /\ Alive(s) /\ ~Alive(d)
    /\ \E left \in MovedFromResult(res[s]) :
          /\ res' = [res EXCEPT ![d] = res[s], ![s] = left]
          /\ given' = [given EXCEPT ![d] = res[s], ![s] = left]
    /\ ret' = RRet("moveConstruct", s, d, NoF, res[s], None, None)
    /\ UNCHANGED <<rfault, errVars, ptrVars>>

\* operator=(const Result &other) = default, as d = s
CopyAssign(s, d) ==
    /\ ~rfault /\ Alive(s) /\ Alive(d) /\ s # d
    /\ res' = [res EXCEPT ![d] = res[s]]
    /\ given' = [given EXCEPT ![d] = res[s]]
    /\ ret' = RRet("copyAssign", s, d, NoF, res[s], None, None)
    /\ UNCHANGED <<rfault, errVars, ptrVars>>

\* operator=(Result &&other) noexcept = default, as d = std::move(s)
MoveAssign(s, d) ==
    /\ ~rfault /\ Alive(s) /\ Alive(d) /\ s # d
    /\ \E left \in MovedFromResult(res[s]) :
          /\ res' = [res EXCEPT ![d] = res[s], ![s] = left]
          /\ given' = [given EXCEPT ![d] = res[s], ![s] = left]
    /\ ret' = RRet("moveAssign", s, d, NoF, res[s], None, None)
    /\ UNCHANGED <<rfault, errVars, ptrVars>>

\* ~Result()
Destroy(s) ==
    /\ ~rfault /\ Alive(s)
    /\ res' = [res EXCEPT ![s] = NoObj]
    /\ given' = [given EXCEPT ![s] = NoObj]
    /\ ret' = RRet("destroy", s, s, NoF, res[s], None, None)
    /\ UNCHANGED <<rfault, errVars, ptrVars>>

-----------------------------------------------------------------------------
(* etl::Result<std::unique_ptr<OkType>, ErrType>, the move-only specialization *)

\* heap cells available to std::make_unique
NumAddrs == 2
\* the containers a program holds at once
NumConts == 2
\* the std::unique_ptr objects the caller holds at once
NumHandles == 1
\* OkType has the values 0..MaxPVal
MaxPVal == 1
\* ErrType has the values 0..MaxPErr
MaxPErr == 0

\* the value of an empty std::unique_ptr
NullPtr == 0
Addrs == 1..NumAddrs
Conts == 1..NumConts
Handles == 1..NumHandles
PVals == 0..MaxPVal
PErrs == 0..MaxPErr

FreeAddrs == {a \in Addrs : heap[a] = None}

\* delete p, as run by ~unique_ptr(): a null pointer frees nothing
Delete(h, p) == IF p = NullPtr THEN h ELSE [h EXCEPT ![p] = None]

\* Result(std::unique_ptr<OkType> &&value)
PResultOk(p) == [isOk_ |-> TRUE, alt |-> "Ok", val |-> p]
\* Result(const ErrType &) / Result(ErrType &&)
PResultErr(e) == [isOk_ |-> FALSE, alt |-> "Err", val |-> e]

\* the pointer a container's destructor deletes
OwnedPtr(r) == IF r # NoObj /\ r.alt = "Ok" THEN r.val ELSE NullPtr

\* a move that copies the pointer and leaves it in the source as well
PMovedFromKeeping(r) == {r}

\* The states the implicit move leaves its source in: the bool is copied, a
\* moved-from unique_ptr is null, a moved-from ErrType is unspecified.
PMovedFrom(r) ==
    IF r.alt = "Ok" THEN {[r EXCEPT !.val = NullPtr]}
    ELSE {[r EXCEPT !.val = l] : l \in PErrs}

PRet(op, self, dst, val) == [op |-> op, self |-> self, dst |-> dst, val |-> val]

PAlive(c) == cont[c] # NoObj
HAlive(h) == handles[h] # None

\* auto h = std::make_unique<OkType>(v)
MakeUnique(h, v) ==
    /\ ~fault /\ ~HAlive(h)
    /\ \E a \in FreeAddrs :
          /\ heap' = [heap EXCEPT ![a] = Some(v)]
          /\ handles' = [handles EXCEPT ![h] = Some(a)]
    /\ pret' = PRet("make_unique", h, h, None)
    /\ UNCHANGED <<cont, fault, errVars, resVars>>

\* std::unique_ptr<OkType> h{}
MakeNull(h) ==
    /\ ~fault /\ ~HAlive(h)
    /\ handles' = [handles EXCEPT ![h] = Some(NullPtr)]
    /\ pret' = PRet("make_null", h, h, None)
    /\ UNCHANGED <<heap, cont, fault, errVars, resVars>>

\* ~unique_ptr() of a caller's handle
HRelease(h) ==
    /\ ~fault /\ HAlive(h)
    /\ heap' = Delete(heap, handles[h][1])
    /\ handles' = [handles EXCEPT ![h] = None]
    /\ pret' = PRet("release", h, h, None)
    /\ UNCHANGED <<cont, fault, errVars, resVars>>

\* Result c(std::move(h)): the handle's pointer moves into the container
PConstructOk(c, h) ==
    /\ ~fault /\ ~PAlive(c) /\ HAlive(h)
    /\ cont' = [cont EXCEPT ![c] = PResultOk(handles[h][1])]
    /\ handles' = [handles EXCEPT ![h] = Some(NullPtr)]
    /\ pret' = PRet("constructOk", c, h, None)
    /\ UNCHANGED <<heap, fault, errVars, resVars>>

\* Result c(e)
PConstructErr(c, e) ==
    /\ ~fault /\ ~PAlive(c)
    /\ cont' = [cont EXCEPT ![c] = PResultErr(e)]
    /\ pret' = PRet("constructErr", c, c, Some(e))
    /\ UNCHANGED <<heap, handles, fault, errVars, resVars>>

\* c.isOk()
PCallIsOk(c) ==
    /\ ~fault /\ PAlive(c)
    /\ pret' = PRet("isOk", c, c, Some(cont[c].isOk_))
    /\ UNCHANGED <<heap, cont, handles, fault, errVars, resVars>>

\* c.isErr()
PCallIsErr(c) ==
    /\ ~fault /\ PAlive(c)
    /\ pret' = PRet("isErr", c, c, Some(~cont[c].isOk_))
    /\ UNCHANGED <<heap, cont, handles, fault, errVars, resVars>>

\* c.err()
PCallErr(c) ==
    /\ ~fault /\ PAlive(c)
    /\ pret' = PRet("err", c, c,
                    IF ~cont[c].isOk_ /\ cont[c].alt = "Err" THEN Some(cont[c].val) ELSE None)
    /\ UNCHANGED <<heap, cont, handles, fault, errVars, resVars>>

\* auto h = c.ok(): std::make_unique<OkType>(**value) copies the pointee into
\* a new heap cell. With a null *value the dereference is undefined behaviour:
\* the process dies, or a cell holding garbage is returned. (A heap with no
\* free cell is outside the model: the call is then not taken.)
PCallOk(c, h) ==
    /\ ~fault /\ PAlive(c) /\ ~HAlive(h)
    /\ IF cont[c].isOk_ /\ cont[c].alt = "Ok"
       THEN IF cont[c].val = NullPtr
            THEN \/ /\ fault' = TRUE
                    /\ pret' = PRet("ok", c, h, None)
                    /\ UNCHANGED <<heap, handles>>
                 \/ /\ \E a \in FreeAddrs, v \in PVals :
                         /\ heap' = [heap EXCEPT ![a] = Some(v)]
                         /\ handles' = [handles EXCEPT ![h] = Some(a)]
                         /\ pret' = PRet("ok", c, h, Some(a))
                    /\ UNCHANGED <<fault>>
            ELSE /\ \E a \in FreeAddrs :
                      /\ heap' = [heap EXCEPT ![a] = heap[cont[c].val]]
                      /\ handles' = [handles EXCEPT ![h] = Some(a)]
                      /\ pret' = PRet("ok", c, h, Some(a))
                 /\ UNCHANGED <<fault>>
       ELSE /\ pret' = PRet("ok", c, h, None)
            /\ UNCHANGED <<heap, handles, fault>>
    /\ UNCHANGED <<cont, errVars, resVars>>

\* Result d(std::move(s)): the implicit move constructor
PMoveConstruct(s, d) ==
    /\ ~fault /\ PAlive(s) /\ ~PAlive(d)
    /\ \E left \in PMovedFrom(cont[s]) :
          cont' = [cont EXCEPT ![d] = cont[s], ![s] = left]
    /\ pret' = PRet("moveConstruct", s, d, None)
    /\ UNCHANGED <<heap, handles, fault, errVars, resVars>>

\* d = std::move(s): the implicit move assignment; d's old pointee is deleted
PMoveAssign(s, d) ==
    /\ ~fault /\ PAlive(s) /\ PAlive(d) /\ s # d
    /\ \E left \in PMovedFrom(cont[s]) :
          cont' = [cont EXCEPT ![d] = cont[s], ![s] = left]
    /\ heap' = Delete(heap, OwnedPtr(cont[d]))
    /\ pret' = PRet("moveAssign", s, d, None)
    /\ UNCHANGED <<handles, fault, errVars, resVars>>

\* ~Result(): the variant's unique_ptr deletes its pointee
PDestroy(c) ==
    /\ ~fault /\ PAlive(c)
    /\ heap' = Delete(heap, OwnedPtr(cont[c]))
    /\ cont' = [cont EXCEPT ![c] = NoObj]
    /\ pret' = PRet("destroy", c, c, None)
    /\ UNCHANGED <<handles, fault, errVars, resVars>>

-----------------------------------------------------------------------------
(* Initial state and the three specifications *)

Init ==
    /\ error = NoObj
    /\ born = NoObj
    /\ lastSet = None
    /\ eret = ERet("none", None)
    /\ res = [s \in Slots |-> NoObj]
    /\ given = [s \in Slots |-> NoObj]
    /\ rfault = FALSE
    /\ ret = RRet("none", 1, 1, NoF, NoObj, None, None)
    /\ heap = [a \in Addrs |-> None]
    /\ cont = [c \in Conts |-> NoObj]
    /\ handles = [h \in Handles |-> None]
    /\ fault = FALSE
    /\ pret = PRet("none", 1, 1, None)

\* etl::Error
NextError ==
    \/ \E m \in Messages : ErrCreate(m)
    \/ \E m \in Messages, file \in Files, line \in Lines, func \in Functions :
          ErrCreateLoc(m, file, line, func)
    \/ \E n \in Messages : ErrSet(n)
    \/ ErrMsg
    \/ ErrInfo
    \/ ErrDestroy

SpecError == Init /\ [][NextError]_vars

\* etl::Result<OkType, ErrType>
Next ==
    \/ \E d \in Slots, v \in Vals : ConstructOk(d, v)
    \/ \E d \in Slots, e \in Vals : ConstructErr(d, e)
    \/ \E s \in Slots : CallIsOk(s)
    \/ \E s \in Slots : CallIsErr(s)
    \/ \E s \in Slots : CallOk(s)
    \/ \E s \in Slots : CallErr(s)
    \/ \E s, d \in Slots, f \in Callables : Map(s, d, f)
    \/ \E s, d \in Slots, f \in Callables : MapErr(s, d, f)
    \/ \E s, d \in Slots : CopyConstruct(s, d)
    \/ \E s, d \in Slots : MoveConstruct(s, d)
    \/ \E s, d \in Slots : CopyAssign(s, d)
    \/ \E s, d \in Slots : MoveAssign(s, d)
    \/ \E s \in Slots : Destroy(s)

Spec == Init /\ [][Next]_vars

\* etl::Result<std::unique_ptr<OkType>, ErrType>
NextPtr ==
    \/ \E h \in Handles, v \in PVals : MakeUnique(h, v)
    \/ \E h \in Handles : MakeNull(h)
    \/ \E h \in Handles : HRelease(h)
    \/ \E c \in Conts, h \in Handles : PConstructOk(c, h)
    \/ \E c \in Conts, e \in PErrs : PConstructErr(c, e)
    \/ \E c \in Conts : PCallIsOk(c)
    \/ \E c \in Conts : PCallIsErr(c)
    \/ \E c \in Conts : PCallErr(c)
    \/ \E c \in Conts, h \in Handles : PCallOk(c, h)
    \/ \E s, d \in Conts : PMoveConstruct(s, d)
    \/ \E s, d \in Conts : PMoveAssign(s, d)
    \/ \E c \in Conts : PDestroy(c)

SpecPtr == Init /\ [][NextPtr]_vars

-----------------------------------------------------------------------------
(* Properties of etl::Error (checked under SpecError) *)

\* the fixed format of the diagnostic, written out independently of the model
FmtError == <<"E", "r", "r", "o", "r", ":", " ">>
FmtFunction == <<"\n", "F", "u", "n", "c", "t", "i", "o", "n", ":", " ">>
FmtFile == <<"\n", "F", "i", "l", "e", ":", " ">>
Digits == {"0", "1", "2", "3", "4", "5", "6", "7", "8", "9"}
DigitValue(c) == CHOOSE d \in 0..9 : DigitChar(d) = c

\* the number a string of decimal digits denotes
RECURSIVE DecimalValue(_)
DecimalValue(ds) ==
    IF Len(ds) = 0 THEN 0
    ELSE 10 * DecimalValue(SubSeq(ds, 1, Len(ds) - 1)) + DigitValue(ds[Len(ds)])

\* ds is the decimal numeral of n: digits only, no leading zero, value n
IsDecimalOf(ds, n) ==
    /\ Len(ds) \in 1..10
    /\ \A i \in 1..Len(ds) : ds[i] \in Digits
    /\ Len(ds) > 1 => ds[1] # "0"
    /\ DecimalValue(ds) = n

\* s is exactly "Error: {m}\nFunction: {func}\nFile: {file}:{line}"
IsDiagnostic(s, m, loc) ==
    LET a == Len(FmtError)
        b == a + Len(m)
        c == b + Len(FmtFunction)
        d == c + Len(loc.func_)
        e == d + Len(FmtFile)
        g == e + Len(loc.file_)
    IN  /\ Len(s) > g + 1
        /\ SubSeq(s, 1, a) = FmtError
        /\ SubSeq(s, a + 1, b) = m
        /\ SubSeq(s, b + 1, c) = FmtFunction
        /\ SubSeq(s, c + 1, d) = loc.func_
        /\ SubSeq(s, d + 1, e) = FmtFile
        /\ SubSeq(s, e + 1, g) = loc.file_
        /\ s[g + 1] = ":"
        /\ IsDecimalOf(SubSeq(s, g + 2, Len(s)), loc.line_)

\* C4: on an Error as create() built it (no set() since), msg() is the message
\* given to create; info() is that message when no location was given, and is
\* exactly "Error: {m}\nFunction: {func}\nFile: {file}:{line}" (never empty)
\* when a location was given.
C4_CreateMsgInfo ==
    /\ (eret.op = "msg" /\ lastSet = None) => eret.val = Some(born.m)
    /\ (eret.op = "info" /\ lastSet = None /\ born.loc = NoLoc) => eret.val = Some(born.m)
    /\ (eret.op = "info" /\ lastSet = None /\ born.loc # NoLoc) =>
           /\ IsDiagnostic(eret.val[1], born.m, born.loc)
           /\ eret.val[1] # <<>>

\* info() was called on an Error created with an empty message, a location
\* whose line has two digits, and no set() since
C4_Witness ==
    /\ eret.op = "info" /\ lastSet = None
    /\ born.loc # NoLoc /\ born.m = <<>> /\ born.loc.line_ = 10
    /\ Len(born.loc.file_) = 1

\* C5: after set(n), msg() is n; info() is n on an Error created without a
\* location, and is still the diagnostic composed at creation from the original
\* message on an Error created with one.
C5_SetKeepsDiagnostic ==
    /\ (eret.op = "msg" /\ lastSet # None) => eret.val = lastSet
    /\ (eret.op = "info" /\ lastSet # None /\ born.loc = NoLoc) => eret.val = lastSet
    /\ (eret.op = "info" /\ lastSet # None /\ born.loc # NoLoc) =>
           IsDiagnostic(eret.val[1], born.m, born.loc)

\* info() was called on an Error created with a location, after a set() to a
\* message other than the original
C5_Witness ==
    /\ eret.op = "info" /\ lastSet # None /\ born.loc # NoLoc
    /\ lastSet # Some(born.m)
    /\ error.msg_ = lastSet[1]

-----------------------------------------------------------------------------
(* Properties of the generic Result (checked under Spec) *)

\* C1: a Result just constructed from an Ok value v answers isOk() = true,
\* isErr() = false, ok() = some(v), err() = none; one just constructed from an
\* Err value e answers false, true, none, some(e); no query faults.
C1_FreshQueries ==
    /\ ret.op = "constructOk" =>
           LET r == res[ret.dst]
           IN  isOk(r) = TRUE /\ isErr(r) = FALSE /\ ok(r) = ret.val /\ err(r) = None
    /\ ret.op = "constructErr" =>
           LET r == res[ret.dst]
           IN  isOk(r) = FALSE /\ isErr(r) = TRUE /\ ok(r) = None /\ err(r) = ret.val
    /\ ret.op \in {"isOk", "isErr", "ok", "err"} => ~rfault

\* a Result was just constructed from a non-zero Err value
C1_Witness == ret.op = "constructErr" /\ ret.val = Some(1) /\ Alive(ret.dst)

\* C2: map with an applicable callable f on Result(v) returns an Ok-state
\* Result with ok() = some(f(v)) and err() = none; mapErr with an applicable g
\* on Result(e) returns an Err-state Result with err() = some(g(e)), ok() = none.
C2_MatchingBranch ==
    /\ \A v \in Vals :
          (ret.op = "map" /\ ret.recv = ResultOk(v) /\ InvocableR(ret.f, "Ok")) =>
              LET r == res[ret.dst]
              IN  isOk(r) /\ ~isErr(r) /\ ok(r) = Some(Invoke(ret.f, v)) /\ err(r) = None
    /\ \A e \in Vals :
          (ret.op = "mapErr" /\ ret.recv = ResultErr(e) /\ InvocableR(ret.f, "Err")) =>
              LET r == res[ret.dst]
              IN  isErr(r) /\ ~isOk(r) /\ err(r) = Some(Invoke(ret.f, e)) /\ ok(r) = None

\* mapErr was just applied with an applicable callable that changes the value
C2_Witness ==
    /\ ret.op = "mapErr" /\ ret.recv = ResultErr(0) /\ InvocableR(ret.f, "Err")
    /\ ret.f.fn = "inc" /\ res[ret.dst] = ResultErr(1)

\* C3: map on Result(e) returns an Err-state Result with err() = some(e), and
\* mapErr on Result(v) an Ok-state Result with ok() = some(v), whatever the
\* callable; the callable is not invoked.
C3_OppositeBranch ==
    /\ \A e \in Vals :
          (ret.op = "map" /\ ret.recv = ResultErr(e)) =>
              LET r == res[ret.dst]
              IN  isErr(r) /\ err(r) = Some(e) /\ ok(r) = None /\ ret.invoked = None
    /\ \A v \in Vals :
          (ret.op = "mapErr" /\ ret.recv = ResultOk(v)) =>
              LET r == res[ret.dst]
              IN  isOk(r) /\ ok(r) = Some(v) /\ err(r) = None /\ ret.invoked = None

\* map was just applied to an Err-state Result with a callable that accepts
\* the Err type
C3_Witness ==
    /\ ret.op = "map" /\ ret.recv = ResultErr(1) /\ ret.f.dom = "Err"
    /\ ret.f.fn = "inc" /\ Alive(ret.dst)

PureOps == {"isOk", "isErr", "ok", "err", "map", "mapErr"}

\* C8: isOk, isErr, ok, err, map and mapErr leave the receiver's state and
\* stored value as they were, so every ok() / err() on an object returns what
\* ok() / err() returns on the state the object was given (and hence what the
\* first such call returned).
C8_ReceiverUnchanged ==
    [][/\ ret'.op \in PureOps => res'[ret'.self] = res[ret'.self]
       /\ ret'.op = "ok" => ret'.val = ok(given'[ret'.self])
       /\ ret'.op = "err" => ret'.val = err(given'[ret'.self])]_vars

\* err() was just called on an Err-state Result while a second Result, as
\* map returns it for that receiver, is alive
C8_Witness ==
    /\ ret.op = "err" /\ ret.val = Some(1)
    /\ \E d \in Slots : d # ret.self /\ Alive(d) /\ res[d] = res[ret.self]

\* C9: with a callable that is not applicable, map on Result(v) returns an
\* Ok-state Result with ok() = some(v) and mapErr on Result(e) an Err-state
\* Result with err() = some(e); the callable is not invoked.
C9_PassThrough ==
    /\ \A v \in Vals :
          (ret.op = "map" /\ ret.recv = ResultOk(v) /\ ~InvocableR(ret.f, "Ok")) =>
              LET r == res[ret.dst]
              IN  isOk(r) /\ ok(r) = Some(v) /\ err(r) = None /\ ret.invoked = None
    /\ \A e \in Vals :
          (ret.op = "mapErr" /\ ret.recv = ResultErr(e) /\ ~InvocableR(ret.f, "Err")) =>
              LET r == res[ret.dst]
              IN  isErr(r) /\ err(r) = Some(e) /\ ok(r) = None /\ ret.invoked = None

\* map was just applied to an Ok-state Result with a callable that is not
\* applicable to the Ok type
C9_Witness ==
    /\ ret.op = "map" /\ ret.recv = ResultOk(1) /\ ~InvocableR(ret.f, "Ok")
    /\ res[ret.dst] = ResultOk(1)

\* C10 as claimed: isOk() on an object never changes between its construction
\* and its destruction, whatever operation is applied, assignment included.
C10_StateFixedAlways ==
    [][\A s \in Slots :
          (res[s] # NoObj /\ res'[s] # NoObj) => isOk(res'[s]) = isOk(res[s])]_vars

\* C10, amended: isOk() on an object is unchanged by every operation except a
\* copy- or move-assignment to that object.
C10_StateFixedButAssign ==
    [][\A s \in Slots :
          (/\ res[s] # NoObj /\ res'[s] # NoObj
           /\ ~(ret'.op \in {"copyAssign", "moveAssign"} /\ ret'.dst = s)) =>
              isOk(res'[s]) = isOk(res[s])]_vars

\* an object was just moved from and holds another value than before
C10_Witness ==
    /\ ret.op \in {"moveConstruct", "moveAssign"}
    /\ Alive(ret.self) /\ res[ret.self].val # ret.recv.val
    /\ isOk(res[ret.self]) = isOk(ret.recv)

\* C12: on every live Result, however it came to be (constructor, map, mapErr,
\* copy, move, assignment), isOk() and isErr() are complements, the flag is true
\* exactly when the variant's live member is the Ok alternative, ok() is
\* non-empty exactly when isOk() and err() is non-empty exactly when isErr().
C12_DiscriminantConsistent ==
    \A s \in Slots :
        Alive(s) =>
            LET r == res[s]
            IN  /\ isOk(r) = ~isErr(r)
                /\ r.isOk_ = (GetIf(r, "Ok") # None)
                /\ ~r.isOk_ = (GetIf(r, "Err") # None)
                /\ (ok(r) # None) = isOk(r)
                /\ (err(r) # None) = isErr(r)
                /\ (ok(r) # None) # (err(r) # None)

\* mapErr with an applicable callable just returned an Err-state Result that
\* holds another value than its receiver, and both objects are alive
C12_Witness ==
    /\ ret.op = "mapErr" /\ isErr(ret.recv) /\ Alive(ret.dst) /\ Alive(ret.self)
    /\ isErr(res[ret.dst])
    /\ InvocableR(ret.f, "Err") /\ res[ret.dst].val # res[ret.self].val

-----------------------------------------------------------------------------
(* Properties of the move-only specialization (checked under SpecPtr) *)

\* C6: after r.ok() returns some(p), r still owns its original pointee at the
\* same address with the same value, p is another address than r's pointee, and
\* the value at p equals the value of r's pointee.
C6_OkNonConsuming ==
    [][(pret'.op = "ok" /\ pret'.val # None) =>
          LET r == cont[pret'.self]
              p == pret'.val[1]
          IN  /\ cont'[pret'.self] = r
              /\ r.val # NullPtr
              /\ heap[r.val] # None
              /\ heap'[r.val] = heap[r.val]
              /\ p # r.val
              /\ heap'[p] = heap[r.val]]_vars

\* the owners of heap cell a: containers in the Ok alternative and caller handles
OwningConts(a) == {c \in Conts : OwnedPtr(cont[c]) = a}
OwningHandles(a) == {h \in Handles : handles[h] = Some(a)}

\* C7: every allocated heap cell has at most one owner among the live
\* containers and handles, and a container that was just moved from holds no
\* pointer.
C7_SingleOwner ==
    /\ \A a \in Addrs :
          heap[a] # None => Cardinality(OwningConts(a)) + Cardinality(OwningHandles(a)) <= 1
    /\ (pret.op \in {"moveConstruct", "moveAssign"} /\ cont[pret.self].alt = "Ok") =>
           cont[pret.self].val = NullPtr
    /\ (pret.op = "constructOk") => handles[pret.dst] = Some(NullPtr)

\* a container that owns a pointee was just move-constructed from another,
\* after ok() had handed a copy to a caller's handle
C7_Witness ==
    /\ pret.op = "moveConstruct"
    /\ OwnedPtr(cont[pret.dst]) # NullPtr
    /\ \E h \in Handles : HAlive(h) /\ handles[h] # Some(NullPtr)

\* C11: ok() of the specialization never faults; on a container whose isOk()
\* is true it returns a non-empty optional holding a new owned pointer to a
\* copy of the container's pointee, and an empty optional when isOk() is false.
C11_OkTotal ==
    /\ ~fault
    /\ (pret.op = "ok" /\ cont[pret.self].isOk_) =>
           /\ pret.val # None
           /\ OwnedPtr(cont[pret.self]) # NullPtr
           /\ pret.val[1] # OwnedPtr(cont[pret.self])
           /\ handles[pret.dst] = pret.val
           /\ heap[pret.val[1]] = heap[OwnedPtr(cont[pret.self])]
    /\ (pret.op = "ok" /\ ~cont[pret.self].isOk_) => pret.val = None

=============================================================================
